---- MODULE Spec2Model ----
(***************************************************************************)
(* Model of notebooks/parameter_estimation_injection_tutorial.ipynb: the   *)
(* kernel state of a top-to-bottom run of the notebook.  Every code        *)
(* statement of the notebook is one action; the kernel's namespace is the  *)
(* set `defined`, and a statement that reads a name that is not bound      *)
(* raises NameError and stops the run.                                     *)
(*                                                                         *)
(* Decimal literals are kept exactly, as records [neg, int, frac] that     *)
(* stand for (-1)^neg * (int + frac / FracUnit).                           *)
(***************************************************************************)
EXTENDS Integers, Sequences, FiniteSets, TLC

VARIABLES pc, defined, error, started, completed,
          injection_parameters, ifos, prior, key_i, likelihood, posterior, Mc

ctrl == <<pc, defined, error, started, completed>>
data == <<injection_parameters, ifos, prior, key_i, likelihood, posterior, Mc>>
vars == <<pc, defined, error, started, completed,
          injection_parameters, ifos, prior, key_i, likelihood, posterior, Mc>>

----------------------------------------------------------------------------
(* Bounds of the model. *)

\* number of posterior samples run_sampler may return (nlive=500 in the run)
NSamples == 1
\* grid points per unit on which the sampler draws from a Uniform prior
GridDen == 2

----------------------------------------------------------------------------
(* Decimal numbers. *)

FracUnit == 10000

Dec(i, f) == [neg |-> FALSE, int |-> i, frac |-> f]
NegDec(i, f) == [neg |-> TRUE, int |-> i, frac |-> f]

\* a <= b
DecLeq(a, b) ==
    IF a.neg /\ ~b.neg THEN TRUE
    ELSE IF ~a.neg /\ b.neg THEN a.int = 0 /\ a.frac = 0 /\ b.int = 0 /\ b.frac = 0
    ELSE IF ~a.neg THEN a.int < b.int \/ (a.int = b.int /\ a.frac <= b.frac)
    ELSE b.int < a.int \/ (a.int = b.int /\ b.frac <= a.frac)

\* d + n and d - n for a non-negative d and an integer n with d - n >= 0
DecPlus(d, n) == [d EXCEPT !.int = d.int + n]
DecMinus(d, n) == [d EXCEPT !.int = d.int - n]

----------------------------------------------------------------------------
(* The literals of the notebook. *)

\* injection_parameters = dict(mass_1=36., mass_2=29., ...)
InjectionParameters ==
    [mass_1 |-> Dec(36, 0), mass_2 |-> Dec(29, 0),
     a_1 |-> Dec(0, 4000), a_2 |-> Dec(0, 3000),
     tilt_1 |-> Dec(0, 5000), tilt_2 |-> Dec(1, 0),
     phi_12 |-> Dec(1, 7000), phi_jl |-> Dec(0, 3000),
     luminosity_distance |-> Dec(2000, 0), theta_jn |-> Dec(0, 4000),
     psi |-> Dec(2, 6590), phase |-> Dec(1, 3000),
     geocent_time |-> Dec(1126259642, 4130),
     ra |-> Dec(1, 3750), dec |-> NegDec(1, 2108)]

\* Uniform(name=..., minimum=..., maximum=...)
Uniform(lo, hi) == [kind |-> "Uniform", minimum |-> lo, maximum |-> hi]
\* a float stored in a PriorDict: the parameter is held at that value
Fixed(v) == [kind |-> "Fixed", value |-> v]

\* mass_ratio allowed above 1
MassRatioPriorWide == Uniform(Dec(0, 5000), Dec(2, 0))

ChirpMassPrior == Uniform(Dec(30, 0), Dec(32, 5000))
MassRatioPrior == Uniform(Dec(0, 5000), Dec(1, 0))
GeocentTimePrior(ip) ==
    Uniform(DecMinus(ip["geocent_time"], 1), DecPlus(ip["geocent_time"], 1))

\* the loop with 'phase' left out of its list
FixedKeysShort ==
    <<"a_1", "a_2", "tilt_1", "tilt_2", "phi_12", "phi_jl", "psi", "ra",
      "dec", "luminosity_distance", "theta_jn">>

\* the keys of the for loop that fixes the rest of the parameters
FixedKeys ==
    <<"a_1", "a_2", "tilt_1", "tilt_2", "phi_12", "phi_jl", "psi", "ra",
      "dec", "luminosity_distance", "theta_jn", "phase">>

\* the loop body reading one and the same entry for every key
FixedValueStale(ip, key) == ip["a_1"]

\* the body of the loop: prior[key] = injection_parameters[key]
FixedValue(ip, key) == ip[key]

\* ifos = InterferometerList(['H1', 'L1'])
Detectors == <<"H1", "L1">>
\* start_time = injection_parameters['geocent_time'] - 3
StartTime(ip) == DecMinus(ip["geocent_time"], 3)

----------------------------------------------------------------------------
(* The code statements of the notebook, in file order. *)

\* the sampler cell placed before the likelihood cell
ProgramSamplerFirst ==
    <<"import", "print_version", "seed", "injection_parameters",
      "waveform_arguments", "waveform_generator",
      "ifos", "set_strain_data", "inject_signal", "plot_data",
      "prior_dict", "prior_chirp_mass", "prior_mass_ratio",
      "prior_geocent_time", "prior_fix", "show_prior",
      "run_sampler", "likelihood",
      "posterior", "posterior_chirp_mass", "Mc", "quantiles", "hist",
      "plot_corner_prior", "plot_corner_injection", "priors", "npoints",
      "bayes_factor">>

Program ==
    <<"import", "print_version", "seed", "injection_parameters",
      "waveform_arguments", "waveform_generator",
      "ifos", "set_strain_data", "inject_signal", "plot_data",
      "prior_dict", "prior_chirp_mass", "prior_mass_ratio",
      "prior_geocent_time", "prior_fix", "show_prior",
      "likelihood", "run_sampler",
      "posterior", "posterior_chirp_mass", "Mc", "quantiles", "hist",
      "plot_corner_prior", "plot_corner_injection", "priors", "npoints",
      "bayes_factor">>

\* the names a statement reads from the kernel's namespace
Reads(s) ==
    CASE s = "import" -> {}
      [] s = "print_version" -> {"bilby"}
      [] s = "seed" -> {"np"}
      [] s = "injection_parameters" -> {}
      [] s = "waveform_arguments" -> {}
      [] s = "waveform_generator" ->
            {"bilby", "duration", "sampling_frequency", "waveform_arguments"}
      [] s = "ifos" -> {"bilby"}
      [] s = "set_strain_data" ->
            {"ifos", "sampling_frequency", "duration", "injection_parameters"}
      [] s = "inject_signal" ->
            {"ifos", "waveform_generator", "injection_parameters"}
      [] s = "plot_data" -> {"ifos", "injection", "plt", "np"}
      [] s = "prior_dict" -> {"bilby"}
      [] s = "prior_chirp_mass" -> {"prior", "Uniform"}
      [] s = "prior_mass_ratio" -> {"prior", "Uniform"}
      [] s = "prior_geocent_time" -> {"prior", "Uniform", "injection_parameters"}
      [] s = "prior_fix" -> {"prior", "injection_parameters"}
      [] s = "show_prior" -> {"prior"}
      [] s = "likelihood" -> {"bilby", "ifos", "waveform_generator", "prior"}
      [] s = "run_sampler" -> {"bilby", "likelihood", "prior"}
      [] s = "posterior" -> {"result_short"}
      [] s = "posterior_chirp_mass" -> {"result_short"}
      [] s = "Mc" -> {"result_short"}
      [] s = "quantiles" -> {"np", "Mc"}
      [] s = "hist" ->
            {"plt", "result_short", "lower_bound", "upper_bound", "median"}
      [] s = "plot_corner_prior" -> {"result_short"}
      [] s = "plot_corner_injection" -> {"result_short"}
      [] s = "priors" -> {"result_short"}
      [] s = "npoints" -> {"result_short"}
      [] s = "bayes_factor" -> {"result_short"}

\* the names a statement binds
Writes(s) ==
    CASE s = "import" ->
            {"np", "plt", "bilby", "Uniform",
             "convert_to_lal_binary_black_hole_parameters",
             "generate_all_bbh_parameters"}
      [] s = "injection_parameters" -> {"injection_parameters"}
      [] s = "waveform_arguments" ->
            {"waveform_arguments", "duration", "sampling_frequency"}
      [] s = "waveform_generator" -> {"waveform_generator"}
      [] s = "ifos" -> {"ifos"}
      [] s = "inject_signal" -> {"injection"}
      [] s = "plot_data" -> {"H1", "H1_injection", "fig", "ax", "idxs"}
      [] s = "prior_dict" -> {"prior"}
      [] s = "prior_fix" -> {"key"}
      [] s = "likelihood" -> {"likelihood"}
      [] s = "run_sampler" -> {"result_short"}
      [] s = "Mc" -> {"Mc"}
      [] s = "quantiles" -> {"lower_bound", "upper_bound", "median"}
      [] s = "hist" -> {"fig", "ax"}
      [] s = "plot_corner_injection" -> {"parameters"}
      [] OTHER -> {}

\* the step of the workflow a statement belongs to (0: none of the six)
Stage(s) ==
    CASE s \in {"ifos", "set_strain_data"} -> 1
      [] s = "inject_signal" -> 2
      [] s \in {"prior_dict", "prior_chirp_mass", "prior_mass_ratio",
                "prior_geocent_time", "prior_fix"} -> 3
      [] s = "likelihood" -> 4
      [] s = "run_sampler" -> 5
      [] s \in {"posterior", "posterior_chirp_mass", "Mc", "quantiles", "hist",
                "plot_corner_prior", "plot_corner_injection", "priors",
                "npoints", "bayes_factor"} -> 6
      [] OTHER -> 0

----------------------------------------------------------------------------
(* run_sampler: the draws from the prior and the conversion of a sample. *)

GridFracs == {k * (FracUnit \div GridDen) : k \in 0 .. (GridDen - 1)}

\* the grid points in the support [minimum, maximum] of a Uniform prior
Support(p) ==
    {d \in {Dec(i, f) : i \in p.minimum.int .. p.maximum.int, f \in GridFracs} :
        DecLeq(p.minimum, d) /\ DecLeq(d, p.maximum)}

UniformKeys(pr) == {k \in DOMAIN pr : pr[k].kind = "Uniform"}
FixedKeySet(pr) == {k \in DOMAIN pr : pr[k].kind = "Fixed"}

\* the points of parameter space the sampler can draw from the prior
Draws(pr) ==
    LET vals == UNION {Support(pr[k]) : k \in UniformKeys(pr)}
        picks == {c \in [UniformKeys(pr) -> vals] :
                     \A k \in UniformKeys(pr) : c[k] \in Support(pr[k])}
    IN  {[k \in DOMAIN pr |->
             IF pr[k].kind = "Uniform" THEN c[k] ELSE pr[k].value] : c \in picks}

Pow5(x) == x * x * x * x * x

\* 10 * ((1 + q) / q^3)^(1/5), rounded down, for q = qt / 10
MassFactor(qt) ==
    LET n == (100000 * (10 + qt) * 100) \div (qt * qt * qt)
    IN  CHOOSE x \in 0 .. 40 : Pow5(x) <= n /\ Pow5(x + 1) > n

\* mass_1 = chirp_mass * (1 + q)^(1/5) / q^(3/5), in tenths of a solar mass
Mass1Tenths(mc, q) ==
    LET mct == mc.int * 10 + (mc.frac * 10) \div FracUnit
        qt == ((q.int * FracUnit + q.frac) * 10) \div FracUnit
    IN  (mct * MassFactor(qt)) \div 10

\* mass_2 = mass_1 * q
Mass2Tenths(m1t, q) == (m1t * (q.int * FracUnit + q.frac)) \div FracUnit

TenthsToDec(t) == Dec(t \div 10, (t % 10) * (FracUnit \div 10))

\* conversion_function=generate_all_bbh_parameters: the component masses of
\* a sample in chirp_mass and mass_ratio
GenerateAllBBHParameters(smp) ==
    IF {"chirp_mass", "mass_ratio"} \subseteq DOMAIN smp
    THEN LET m1t == Mass1Tenths(smp["chirp_mass"], smp["mass_ratio"])
             m2t == Mass2Tenths(m1t, smp["mass_ratio"])
         IN  [k \in DOMAIN smp \cup {"mass_1", "mass_2"} |->
                 IF k = "mass_1" THEN TenthsToDec(m1t)
                 ELSE IF k = "mass_2" THEN TenthsToDec(m2t)
                 ELSE smp[k]]
    ELSE smp

----------------------------------------------------------------------------
(* The kernel. *)

NoDict == [k \in {} |-> Dec(0, 0)]
NoIfos == [detectors |-> <<>>, strain |-> FALSE, start_time |-> Dec(0, 0),
           injected |-> FALSE]
NoLikelihood == [interferometers |-> <<>>, priors |-> {},
                 time_marginalization |-> FALSE,
                 phase_marginalization |-> FALSE,
                 distance_marginalization |-> FALSE]

Init ==
    /\ pc = 1
    /\ defined = {}
    /\ error = ""
    /\ started = {}
    /\ completed = {}
    /\ injection_parameters = NoDict
    /\ ifos = NoIfos
    /\ prior = NoDict
    /\ key_i = 1
    /\ likelihood = NoLikelihood
    /\ posterior = <<>>
    /\ Mc = <<>>

\* no later statement of the program belongs to the step of statement i
LastOfStage(i) ==
    \A j \in (i + 1) .. Len(Program) : Stage(Program[j]) # Stage(Program[i])

Starts(s) == IF Stage(s) # 0 THEN started \cup {Stage(s)} ELSE started

\* the statement completes and the next one is up
Done(s) ==
    /\ pc' = pc + 1
    /\ defined' = defined \cup Writes(s)
    /\ error' = error
    /\ started' = Starts(s)
    /\ completed' = IF Stage(s) # 0 /\ LastOfStage(pc)
                    THEN completed \cup {Stage(s)} ELSE completed

\* an iteration of a loop statement that is not its last
Again(s) ==
    /\ pc' = pc
    /\ defined' = defined \cup Writes(s)
    /\ error' = error
    /\ started' = Starts(s)
    /\ completed' = completed

\* a name the statement reads is not bound: the run stops
NameError ==
    /\ error' = "NameError"
    /\ UNCHANGED <<pc, defined, started, completed>>
    /\ UNCHANGED data

At(s) == pc \in 1 .. Len(Program) /\ Program[pc] = s /\ error = ""

\* a statement whose effect on the modelled state is eff
Stmt(s, eff) ==
    IF Reads(s) \subseteq defined THEN Done(s) /\ eff ELSE NameError

\* a statement that only reads, prints or plots
Show(s) == Stmt(s, UNCHANGED data)

----------------------------------------------------------------------------
(* The statements. *)

Import ==
    /\ At("import")
    /\ Show("import")
PrintVersion ==
    /\ At("print_version")
    /\ Show("print_version")
Seed ==
    /\ At("seed")
    /\ Show("seed")

SetInjectionParameters ==
    /\ At("injection_parameters")
    /\ Stmt("injection_parameters",
            /\ injection_parameters' = InjectionParameters
            /\ UNCHANGED <<ifos, prior, key_i, likelihood, posterior, Mc>>)

SetWaveformArguments ==
    /\ At("waveform_arguments")
    /\ Show("waveform_arguments")
MakeWaveformGenerator ==
    /\ At("waveform_generator")
    /\ Show("waveform_generator")

MakeIfos ==
    /\ At("ifos")
    /\ Stmt("ifos",
            /\ ifos' = [NoIfos EXCEPT !.detectors = Detectors]
            /\ UNCHANGED <<injection_parameters, prior, key_i, likelihood,
                           posterior, Mc>>)

SetStrainData ==
    /\ At("set_strain_data")
    /\ Stmt("set_strain_data",
            /\ ifos' = [ifos EXCEPT !.strain = TRUE,
                                    !.start_time = StartTime(injection_parameters)]
            /\ UNCHANGED <<injection_parameters, prior, key_i, likelihood,
                           posterior, Mc>>)

InjectSignal ==
    /\ At("inject_signal")
    /\ Stmt("inject_signal",
            /\ ifos' = [ifos EXCEPT !.injected = TRUE]
            /\ UNCHANGED <<injection_parameters, prior, key_i, likelihood,
                           posterior, Mc>>)

PlotData ==
    /\ At("plot_data")
    /\ Show("plot_data")

PriorDict ==
    /\ At("prior_dict")
    /\ Stmt("prior_dict",
            /\ prior' = NoDict
            /\ UNCHANGED <<injection_parameters, ifos, key_i, likelihood,
                           posterior, Mc>>)

\* prior[k] = v
SetItem(pr, k, v) == [x \in DOMAIN pr \cup {k} |-> IF x = k THEN v ELSE pr[x]]

PriorChirpMass ==
    /\ At("prior_chirp_mass")
    /\ Stmt("prior_chirp_mass",
            /\ prior' = SetItem(prior, "chirp_mass", ChirpMassPrior)
            /\ UNCHANGED <<injection_parameters, ifos, key_i, likelihood,
                           posterior, Mc>>)

PriorMassRatio ==
    /\ At("prior_mass_ratio")
    /\ Stmt("prior_mass_ratio",
            /\ prior' = SetItem(prior, "mass_ratio", MassRatioPrior)
            /\ UNCHANGED <<injection_parameters, ifos, key_i, likelihood,
                           posterior, Mc>>)

PriorGeocentTime ==
    /\ At("prior_geocent_time")
    /\ Stmt("prior_geocent_time",
            /\ prior' = SetItem(prior, "geocent_time",
                                GeocentTimePrior(injection_parameters))
            /\ UNCHANGED <<injection_parameters, ifos, key_i, likelihood,
                           posterior, Mc>>)

\* one iteration of: for key in [...]: prior[key] = injection_parameters[key]
PriorFix ==
    /\ At("prior_fix")
    /\ IF Reads("prior_fix") \subseteq defined
       THEN /\ key_i \in 1 .. Len(FixedKeys)
            /\ prior' = SetItem(prior, FixedKeys[key_i],
                                Fixed(FixedValue(injection_parameters,
                                                 FixedKeys[key_i])))
            /\ key_i' = key_i + 1
            /\ IF key_i = Len(FixedKeys)
               THEN Done("prior_fix") ELSE Again("prior_fix")
            /\ UNCHANGED <<injection_parameters, ifos, likelihood, posterior, Mc>>
       ELSE NameError

ShowPrior ==
    /\ At("show_prior")
    /\ Show("show_prior")

MakeLikelihood ==
    /\ At("likelihood")
    /\ Stmt("likelihood",
            /\ likelihood' = [interferometers |-> ifos.detectors,
                              priors |-> DOMAIN prior,
                              time_marginalization |-> TRUE,
                              phase_marginalization |-> TRUE,
                              distance_marginalization |-> FALSE]
            /\ UNCHANGED <<injection_parameters, ifos, prior, key_i, posterior, Mc>>)

\* result_short = bilby.run_sampler(likelihood, prior, ...,
\*     conversion_function=generate_all_bbh_parameters, ...)
RunSampler ==
    /\ At("run_sampler")
    /\ Stmt("run_sampler",
            /\ \E n \in 1 .. NSamples :
                  \E smps \in [1 .. n -> Draws(prior)] :
                     posterior' = [i \in 1 .. n |-> GenerateAllBBHParameters(smps[i])]
            /\ UNCHANGED <<injection_parameters, ifos, prior, key_i, likelihood, Mc>>)

ShowPosterior ==
    /\ At("posterior")
    /\ Show("posterior")
ShowPosteriorChirpMass ==
    /\ At("posterior_chirp_mass")
    /\ Show("posterior_chirp_mass")

\* Mc = result_short.posterior["chirp_mass"].values
SetMc ==
    /\ At("Mc")
    /\ Stmt("Mc",
            /\ Mc' = [i \in 1 .. Len(posterior) |-> posterior[i]["chirp_mass"]]
            /\ UNCHANGED <<injection_parameters, ifos, prior, key_i, likelihood,
                           posterior>>)

Quantiles ==
    /\ At("quantiles")
    /\ Show("quantiles")
Hist ==
    /\ At("hist")
    /\ Show("hist")
PlotCornerPrior ==
    /\ At("plot_corner_prior")
    /\ Show("plot_corner_prior")
PlotCornerInjection ==
    /\ At("plot_corner_injection")
    /\ Show("plot_corner_injection")
ShowPriors ==
    /\ At("priors")
    /\ Show("priors")
ShowNpoints ==
    /\ At("npoints")
    /\ Show("npoints")
PrintBayesFactor ==
    /\ At("bayes_factor")
    /\ Show("bayes_factor")

Next ==
    \/ Import \/ PrintVersion \/ Seed \/ SetInjectionParameters
    \/ SetWaveformArguments \/ MakeWaveformGenerator
    \/ MakeIfos \/ SetStrainData \/ InjectSignal \/ PlotData
    \/ PriorDict \/ PriorChirpMass \/ PriorMassRatio \/ PriorGeocentTime
    \/ PriorFix \/ ShowPrior
    \/ MakeLikelihood \/ RunSampler
    \/ ShowPosterior \/ ShowPosteriorChirpMass \/ SetMc \/ Quantiles \/ Hist
    \/ PlotCornerPrior \/ PlotCornerInjection \/ ShowPriors \/ ShowNpoints
    \/ PrintBayesFactor

Spec == Init /\ [][Next]_vars

TypeOK ==
    /\ pc \in 1 .. (Len(Program) + 1)
    /\ error \in {"", "NameError"}
    /\ started \subseteq 1 .. 6
    /\ completed \subseteq 1 .. 6
    /\ key_i \in 1 .. (Len(FixedKeys) + 1)
    /\ Len(posterior) <= NSamples

----------------------------------------------------------------------------
(* Properties. *)

Finished == pc = Len(Program) + 1
PriorBuilt == 3 \in completed
DecLess(a, b) == DecLeq(a, b) /\ a # b

\* C1: in a top-to-bottom run the six steps of the workflow (detector
\* network with strain data, injection, prior, likelihood, run_sampler,
\* results) happen in this order, each one started only after all the
\* previous ones have completed, no statement reads a name that no earlier
\* statement has bound, and the run ends with all six steps completed.
C1_WorkflowOrder ==
    /\ error = ""
    /\ \A k \in started : \A j \in 1 .. (k - 1) : j \in completed
    /\ completed \subseteq started
    /\ Finished => completed = 1 .. 6

C1_Witness == Finished /\ error = "" /\ completed = 1 .. 6 /\ Len(posterior) > 0

C4_PrimaryIsHeavier ==
    /\ "injection_parameters" \in defined =>
          DecLeq(injection_parameters["mass_2"], injection_parameters["mass_1"])
    /\ "mass_ratio" \in DOMAIN prior =>
          /\ DecLess(Dec(0, 0), prior["mass_ratio"].minimum)
          /\ DecLeq(prior["mass_ratio"].maximum, Dec(1, 0))
          /\ \A q \in Support(prior["mass_ratio"]) :
                DecLess(Dec(0, 0), q) /\ DecLeq(q, Dec(1, 0))
    /\ \A i \in 1 .. Len(posterior) :
          DecLeq(posterior[i]["mass_2"], posterior[i]["mass_1"])

C4_Witness ==
    \E i \in 1 .. Len(posterior) :
       /\ DecLess(posterior[i]["mass_ratio"], Dec(1, 0))
       /\ DecLess(posterior[i]["mass_2"], posterior[i]["mass_1"])

====
